---- MODULE Spec2Model ----
(***************************************************************************)
(* Body filters of warp (src/filters/body.rs) and the example route that   *)
(* uses them (examples/body.rs): one request, its Route Context, the body  *)
(* stream, ConcatFut and JsonFut, and the filter chain applied to it.      *)
(***************************************************************************)
EXTENDS Integers, Sequences, FiniteSets, TLC

\* ------------------------------------------------------------- bounds
MaxRate == 1        \* rates (u32 values) range over 0..MaxRate
MaxChunks == 2      \* chunks the body stream delivers before it ends
MaxPolls == 3       \* polls the driver makes of one future
MaxTakes == 1       \* direct take_body() calls made outside the body filters

\* ------------------------------------------------------ bytes and JSON
\* A body is a sequence of lexical tokens of the JSON text; a name token
\* stands for the member "name":"<s>", a rate token for "rate":<n>.
Tok(t, s, n) == [t |-> t, s |-> s, n |-> n]
LBrace == Tok("{", "", 0)
RBrace == Tok("}", "", 0)
Comma == Tok(",", "", 0)
Junk == Tok("junk", "", 0)
NameTok(s) == Tok("name", s, 0)
RateTok(n) == Tok("rate", "", n)

Names == {"Sean"}
Rates == 0..MaxRate

\* examples/body.rs: struct Employee { name: String, rate: u32 }
Employee == [name : Names, rate : Rates]
NoEmployee == [name |-> "", rate |-> 0]

\* serde_json's encoding of an Employee (declaration order), and the same
\* object with its members in the other order.
Encode(e) == <<LBrace, NameTok(e.name), Comma, RateTok(e.rate), RBrace>>
EncodeSwapped(e) == <<LBrace, RateTok(e.rate), Comma, NameTok(e.name), RBrace>>

\* serde_json::from_slice::<Employee>(&buf): one object holding exactly the
\* members name and rate, in either order, and nothing after it.
Decode(buf) ==
  IF Len(buf) = 5 /\ buf[1] = LBrace /\ buf[3] = Comma /\ buf[5] = RBrace
       /\ buf[2].t = "name" /\ buf[4].t = "rate"
    THEN [ok |-> TRUE, val |-> [name |-> buf[2].s, rate |-> buf[4].n]]
  ELSE IF Len(buf) = 5 /\ buf[1] = LBrace /\ buf[3] = Comma /\ buf[5] = RBrace
       /\ buf[2].t = "rate" /\ buf[4].t = "name"
    THEN [ok |-> TRUE, val |-> [name |-> buf[4].s, rate |-> buf[2].n]]
  ELSE [ok |-> FALSE, val |-> NoEmployee]

\* The request bodies a client sends: encodings of employees in both member
\* orders, an object lacking its rate, text that is no JSON, the empty body.
Bodies ==
  {Encode(e) : e \in Employee} \cup {EncodeSwapped(e) : e \in Employee}
    \cup {<<LBrace, NameTok(s), RBrace>> : s \in Names}
    \cup {<<Junk>>, <<>>}

\* What may have arrived of a body so far, and the chunks it may come in.
Prefixes == UNION {{SubSeq(b, 1, k) : k \in 0..Len(b)} : b \in Bodies}
Pieces ==
  UNION {UNION {{SubSeq(b, i, j) : j \in (i - 1)..Len(b)} : i \in 1..(Len(b) + 1)} :
           b \in Bodies}

RECURSIVE Flatten(_)
Flatten(chunks) ==
  IF chunks = <<>> THEN <<>> ELSE Head(chunks) \o Flatten(Tail(chunks))

\* --------------------------------------------------------- body stream
\* hyper::Body as a Stream of Chunk: events that have arrived from the
\* transport and were not yet polled.
Ev(kind, data) == [kind |-> kind, data |-> data]
\* What a poll of the stream yields once its end or error was consumed
\* (the Stream contract leaves it open).
PostOutcomes == {"end", "chunk", "notready", "err"}

Body_poll(av, post) ==
  IF av # <<>> THEN [kind |-> Head(av).kind, data |-> Head(av).data, rest |-> Tail(av)]
  ELSE [kind |-> post, data |-> <<>>, rest |-> <<>>]

PollRes(res, val, err, av, ext, ac) ==
  [res |-> res, val |-> val, err |-> err, avail |-> av, extend |-> ext, acc |-> ac]

\* A mutant of Concat2_poll: a chunk replaces the buffer instead of
\* extending it.
RECURSIVE Concat2_pollReplace(_, _, _, _)
Concat2_pollReplace(av, ext, ac, post) ==
  LET r == Body_poll(av, post) IN
  CASE r.kind = "chunk" ->
         IF ext = "Done" THEN PollRes("Panic", <<>>, "", r.rest, ext, ac)
         ELSE Concat2_pollReplace(r.rest, "Extending", r.data, post)
    [] r.kind = "end" ->
         IF ext = "Done" THEN PollRes("Panic", <<>>, "", r.rest, ext, ac)
         ELSE PollRes("Ready", ac, "", r.rest, "Done", <<>>)
    [] r.kind = "notready" -> PollRes("NotReady", <<>>, "", r.rest, ext, ac)
    [] OTHER -> PollRes("Err", <<>>, "hyper", r.rest, "Done", <<>>)

\* A mutant of Concat2_poll: polled again after it was Ready, it is Ready
\* again with an empty buffer.
RECURSIVE Concat2_pollRepeat(_, _, _, _)
Concat2_pollRepeat(av, ext, ac, post) ==
  LET r == Body_poll(av, post) IN
  CASE r.kind = "chunk" ->
         IF ext = "Done" THEN PollRes("Panic", <<>>, "", r.rest, ext, ac)
         ELSE IF ext = "First" THEN Concat2_pollRepeat(r.rest, "Extending", r.data, post)
         ELSE Concat2_pollRepeat(r.rest, "Extending", ac \o r.data, post)
    [] r.kind = "end" -> PollRes("Ready", ac, "", r.rest, "Done", <<>>)
    [] r.kind = "notready" -> PollRes("NotReady", <<>>, "", r.rest, ext, ac)
    [] OTHER -> PollRes("Err", <<>>, "hyper", r.rest, "Done", <<>>)

\* A mutant of Concat2_poll: an error of the stream ends the accumulation
\* like its end does, with what was accumulated.
RECURSIVE Concat2_pollErrAsEnd(_, _, _, _)
Concat2_pollErrAsEnd(av, ext, ac, post) ==
  LET r == Body_poll(av, post) IN
  CASE r.kind = "chunk" ->
         IF ext = "Done" THEN PollRes("Panic", <<>>, "", r.rest, ext, ac)
         ELSE IF ext = "First" THEN Concat2_pollErrAsEnd(r.rest, "Extending", r.data, post)
         ELSE Concat2_pollErrAsEnd(r.rest, "Extending", ac \o r.data, post)
    [] r.kind = "notready" -> PollRes("NotReady", <<>>, "", r.rest, ext, ac)
    [] OTHER ->
         IF ext = "Done" THEN PollRes("Panic", <<>>, "", r.rest, ext, ac)
         ELSE PollRes("Ready", ac, "", r.rest, "Done", <<>>)

\* A mutant of Concat2_poll: it takes one chunk and reports Pending, leaving
\* what else is queued in the stream.
Concat2_pollOneChunk(av, ext, ac, post) ==
  LET r == Body_poll(av, post) IN
  CASE r.kind = "chunk" ->
         IF ext = "Done" THEN PollRes("Panic", <<>>, "", r.rest, ext, ac)
         ELSE PollRes("NotReady", <<>>, "", r.rest, "Extending",
                      IF ext = "First" THEN r.data ELSE ac \o r.data)
    [] r.kind = "end" ->
         IF ext = "Done" THEN PollRes("Panic", <<>>, "", r.rest, ext, ac)
         ELSE PollRes("Ready", ac, "", r.rest, "Done", <<>>)
    [] r.kind = "notready" -> PollRes("NotReady", <<>>, "", r.rest, ext, ac)
    [] OTHER -> PollRes("Err", <<>>, "hyper", r.rest, "Done", <<>>)

\* A mutant of Concat2_poll: a stream that ends before any chunk is an error.
RECURSIVE Concat2_pollEmptyFails(_, _, _, _)
Concat2_pollEmptyFails(av, ext, ac, post) ==
  LET r == Body_poll(av, post) IN
  CASE r.kind = "chunk" ->
         IF ext = "Done" THEN PollRes("Panic", <<>>, "", r.rest, ext, ac)
         ELSE IF ext = "First" THEN Concat2_pollEmptyFails(r.rest, "Extending", r.data, post)
         ELSE Concat2_pollEmptyFails(r.rest, "Extending", ac \o r.data, post)
    [] r.kind = "end" ->
         IF ext = "Done" THEN PollRes("Panic", <<>>, "", r.rest, ext, ac)
         ELSE IF ext = "First" THEN PollRes("Err", <<>>, "hyper", r.rest, "Done", <<>>)
         ELSE PollRes("Ready", ac, "", r.rest, "Done", <<>>)
    [] r.kind = "notready" -> PollRes("NotReady", <<>>, "", r.rest, ext, ac)
    [] OTHER -> PollRes("Err", <<>>, "hyper", r.rest, "Done", <<>>)

\* Concat2<Body>::poll (futures 0.1), the future body.concat2() returns:
\* drain the stream, extending the buffer by each chunk; Ready at the
\* stream's end, Err at its error; polled again after either, it panics
\* when the stream yields an item or its end.
RECURSIVE Concat2_poll(_, _, _, _)
Concat2_poll(av, ext, ac, post) ==
  LET r == Body_poll(av, post) IN
  CASE r.kind = "chunk" ->
         IF ext = "Done" THEN PollRes("Panic", <<>>, "", r.rest, ext, ac)
         ELSE IF ext = "First" THEN Concat2_poll(r.rest, "Extending", r.data, post)
         ELSE Concat2_poll(r.rest, "Extending", ac \o r.data, post)
    [] r.kind = "end" ->
         IF ext = "Done" THEN PollRes("Panic", <<>>, "", r.rest, ext, ac)
         ELSE PollRes("Ready", ac, "", r.rest, "Done", <<>>)
    [] r.kind = "notready" -> PollRes("NotReady", <<>>, "", r.rest, ext, ac)
    [] OTHER -> PollRes("Err", <<>>, "hyper", r.rest, "Done", <<>>)

\* Error(()): the one value of warp's Error.
ErrorUnit == "Error(())"

\* A mutant of ConcatFut_poll: the stream's error is passed through.
ConcatFut_pollNoMapErr(av, ext, ac, post) == Concat2_poll(av, ext, ac, post)

\* ConcatFut::poll: self.fut.poll().map_err(|e| Error(()))
ConcatFut_poll(av, ext, ac, post) ==
  LET r == Concat2_poll(av, ext, ac, post) IN
  IF r.res = "Err" THEN [r EXCEPT !.err = ErrorUnit] ELSE r

\* The outcome of a JsonFut poll, with that of the ConcatFut poll it made.
JsonRes(res, val, err, decoded, r) ==
  [res |-> res, val |-> val, err |-> err, decoded |-> decoded,
   inner |-> [res |-> r.res, val |-> r.val, err |-> r.err],
   avail |-> r.avail, extend |-> r.extend, acc |-> r.acc]

\* A mutant of JsonFut_poll: a decode error yields a default Employee.
JsonFut_pollDefault(av, ext, ac, post) ==
  LET r == ConcatFut_poll(av, ext, ac, post) IN
  IF r.res # "Ready" THEN JsonRes(r.res, NoEmployee, r.err, FALSE, r)
  ELSE LET d == Decode(r.val) IN
       JsonRes("Ready", d.val, "", TRUE, r)

\* A mutant of JsonFut_poll: while the ConcatFut is Pending, what it has
\* accumulated is decoded already.
JsonFut_pollEager(av, ext, ac, post) ==
  LET r == ConcatFut_poll(av, ext, ac, post) IN
  IF r.res = "NotReady" /\ Decode(r.acc).ok
    THEN JsonRes("Ready", Decode(r.acc).val, "", TRUE, r)
  ELSE IF r.res # "Ready" THEN JsonRes(r.res, NoEmployee, r.err, FALSE, r)
  ELSE LET d == Decode(r.val) IN
       IF d.ok THEN JsonRes("Ready", d.val, "", TRUE, r)
       ELSE JsonRes("Err", NoEmployee, ErrorUnit, TRUE, r)

\* JsonFut::poll: try_ready!(self.concat.poll()), then serde_json::from_slice.
JsonFut_poll(av, ext, ac, post) ==
  LET r == ConcatFut_poll(av, ext, ac, post) IN
  IF r.res # "Ready" THEN JsonRes(r.res, NoEmployee, r.err, FALSE, r)
  ELSE LET d == Decode(r.val) IN
       IF d.ok THEN JsonRes("Ready", d.val, "", TRUE, r)
       ELSE JsonRes("Err", NoEmployee, ErrorUnit, TRUE, r)

\* ------------------------------------------------------- Route Context
\* One request: the unmatched path segments and the body slot, with the
\* record of what was done to it (take_body calls, filters applied, calls
\* of the route's map closure).
Seg(kind, word, num) == [kind |-> kind, word |-> word, num |-> num]
Word(w) == Seg("word", w, 0)
Num(n) == Seg("num", "", n)

Ctx(segs, b, tk, ap, hd) ==
  [segs |-> segs, body |-> b, takes |-> tk, applied |-> ap, handler |-> hd]

\* A mutant of take_body: the slot is read and left in place.
take_bodyKeep(ctx, by) ==
  [got |-> ctx.body = "present",
   ctx |-> [ctx EXCEPT !.takes = Append(@, [by |-> by, got |-> ctx.body = "present"])]]

\* Route::take_body: the body moves out of the slot once; later calls get
\* nothing.
take_body(ctx, by) ==
  [got |-> ctx.body = "present",
   ctx |-> [ctx EXCEPT !.body = "taken",
                       !.takes = Append(@, [by |-> by, got |-> ctx.body = "present"])]]

\* ------------------------------------------------------------- filters
\* An extracted value: a path parameter, or one of the futures.
Val(tag, n) == [tag |-> tag, n |-> n]
Out(ok, tuple, ctx) == [ok |-> ok, tuple |-> tuple, ctx |-> ctx]

\* path::exact("employees")
exact_apply(ctx) ==
  IF ctx.segs # <<>> /\ Head(ctx.segs) = Word("employees")
    THEN Out(TRUE, <<>>, [ctx EXCEPT !.segs = Tail(@)])
    ELSE Out(FALSE, <<>>, ctx)

\* path::<u32>()
param_apply(ctx) ==
  IF ctx.segs # <<>> /\ Head(ctx.segs).kind = "num"
    THEN Out(TRUE, <<Val("u32", Head(ctx.segs).num)>>, [ctx EXCEPT !.segs = Tail(@)])
    ELSE Out(FALSE, <<>>, ctx)

\* A mutant of concat_apply: the future is returned without taking the body
\* out of the route.
concat_applyLazy(ctx) ==
  LET t == take_bodyKeep(ctx, "concat") IN
  IF t.got THEN Out(TRUE, <<Val("ConcatFut", 0)>>, t.ctx)
  ELSE Out(FALSE, <<>>, t.ctx)

\* A mutant of concat_apply: an unavailable body is replaced by an empty one.
concat_applyOrEmpty(ctx) ==
  LET t == take_body(ctx, "concat") IN
  Out(TRUE, <<Val("ConcatFut", IF t.got THEN 0 ELSE 1)>>, t.ctx)

\* concat(): route.take_body().map(|body| ConcatFut { fut: body.unwrap().concat2() }).
\* The value's n is 0 for a future over the request's own body stream.
concat_apply(ctx) ==
  LET t == take_body(ctx, "concat") IN
  IF t.got THEN Out(TRUE, <<Val("ConcatFut", 0)>>, t.ctx)
  ELSE Out(FALSE, <<>>, t.ctx)

\* The closures given to Filter::map: json()'s |concat| JsonFut { concat, .. }
\* and the promote route's |rate, json| of examples/body.rs.
MapFn(fn, tuple) ==
  IF fn = "JsonFut" THEN <<Val("JsonFut", tuple[1].n)>>
  ELSE <<Val("Reply", tuple[1].n)>>

\* Filter::map: the closure runs on the extracted tuple; a failure passes.
Map(o, fn) ==
  IF ~o.ok THEN o
  ELSE Out(TRUE, MapFn(fn, o.tuple),
           IF fn = "promote"
             THEN [o.ctx EXCEPT !.handler = Append(@, o.tuple)]
             ELSE o.ctx)

\* A mutant of json_apply: the map step yields a JsonFut where concat()
\* has failed.
json_applyLenient(ctx) ==
  LET o == concat_apply(ctx) IN
  Out(TRUE, <<Val("JsonFut", IF o.ok THEN 0 ELSE 1)>>, o.ctx)

\* json::<T>(): concat().map(|concat| JsonFut { concat, _marker })
json_apply(ctx) == Map(concat_apply(ctx), "JsonFut")

\* A filter is a table of nodes, each naming its operands by their index;
\* the last node is the root.
Node(op, l, r) == [op |-> op, l |-> l, r |-> r]
Leaf(kind) == Node(kind, 0, 0)
LeafKinds == {"exact", "param", "concat", "json"}

RECURSIVE Apply(_, _, _)

\* A mutant of Chain: the second filter is applied although the first failed.
ChainNoShortCircuit(tree, i, ctx) ==
  LET a == Apply(tree, tree[i].l, ctx)
      b == Apply(tree, tree[i].r, a.ctx)
  IN  IF a.ok /\ b.ok THEN Out(TRUE, a.tuple \o b.tuple, b.ctx)
      ELSE Out(FALSE, <<>>, b.ctx)

\* A mutant of Chain: the two tuples are joined in the other order.
ChainReversed(tree, i, ctx) ==
  LET a == Apply(tree, tree[i].l, ctx) IN
  IF ~a.ok THEN Out(FALSE, <<>>, a.ctx)
  ELSE LET b == Apply(tree, tree[i].r, a.ctx) IN
       IF ~b.ok THEN Out(FALSE, <<>>, b.ctx)
       ELSE Out(TRUE, b.tuple \o a.tuple, b.ctx)

\* A mutant of Chain: the second filter is applied before the first.
ChainRightFirst(tree, i, ctx) ==
  LET b == Apply(tree, tree[i].r, ctx) IN
  IF ~b.ok THEN Out(FALSE, <<>>, b.ctx)
  ELSE LET a == Apply(tree, tree[i].l, b.ctx) IN
       IF ~a.ok THEN Out(FALSE, <<>>, a.ctx)
       ELSE Out(TRUE, a.tuple \o b.tuple, a.ctx)

\* Filter::and: self first; if it fails, other is not applied; else other on
\* the same context, and the two tuples joined in declaration order.
Chain(tree, i, ctx) ==
  LET a == Apply(tree, tree[i].l, ctx) IN
  IF ~a.ok THEN Out(FALSE, <<>>, a.ctx)
  ELSE LET b == Apply(tree, tree[i].r, a.ctx) IN
       IF ~b.ok THEN Out(FALSE, <<>>, b.ctx)
       ELSE Out(TRUE, a.tuple \o b.tuple, b.ctx)

\* Filter::filter of node i; its call and its return are recorded in
\* ctx.applied.
Apply(tree, i, ctx) ==
  LET c == [ctx EXCEPT !.applied = Append(@, [node |-> i, ev |-> "call"])]
      op == tree[i].op
      o == CASE op = "exact" -> exact_apply(c)
             [] op = "param" -> param_apply(c)
             [] op = "concat" -> concat_apply(c)
             [] op = "json" -> json_apply(c)
             [] op = "and" -> Chain(tree, i, c)
             [] OTHER -> Map(Apply(tree, tree[i].l, c), "promote")
  IN  [o EXCEPT !.ctx.applied =
                  Append(@, [node |-> i, ev |-> IF o.ok THEN "ok" ELSE "fail"])]

RECURSIVE HasBody(_, _)
\* Whether the filter at node i holds a body filter.
HasBody(tree, i) ==
  CASE tree[i].op \in {"concat", "json"} -> TRUE
    [] tree[i].op \in {"exact", "param"} -> FALSE
    [] tree[i].op = "and" -> HasBody(tree, tree[i].l) \/ HasBody(tree, tree[i].r)
    [] OTHER -> HasBody(tree, tree[i].l)

\* A mutant of Andable: anything may be chained after a body filter.
AndableAny(tree, i) == TRUE

\* Whether `and` is offered on the filter at node i: body filters, and the
\* chains that end in one, do not have it.
Andable(tree, i) == ~HasBody(tree, i)

\* The chains that compile: the left operand of every `and` is Andable.
WellTyped(tree) ==
  \A i \in 1..Len(tree) : tree[i].op = "and" => Andable(tree, tree[i].l)

\* -------------------------------------------------------------- routes
Tree1(a) == <<Leaf(a)>>
Tree2(a, b) == <<Leaf(a), Leaf(b), Node("and", 1, 2)>>
\* (a.and(b)).and(c) and a.and(b.and(c))
TreeL(a, b, c) == <<Leaf(a), Leaf(b), Leaf(c), Node("and", 1, 2), Node("and", 4, 3)>>
TreeR(a, b, c) == <<Leaf(a), Leaf(b), Leaf(c), Node("and", 2, 3), Node("and", 1, 4)>>
Root(tree) == Len(tree)

RECURSIVE Extract(_, _)
\* The Extract type of the filter at node i, as the tags of its tuple.
Extract(tree, i) ==
  CASE tree[i].op = "exact" -> <<>>
    [] tree[i].op = "param" -> <<"u32">>
    [] tree[i].op = "concat" -> <<"ConcatFut">>
    [] tree[i].op = "json" -> <<"JsonFut">>
    [] tree[i].op = "and" -> Extract(tree, tree[i].l) \o Extract(tree, tree[i].r)
    [] OTHER -> <<"Reply">>

Chains ==
  {Tree1(a) : a \in LeafKinds}
    \cup {Tree2(a, b) : a \in LeafKinds, b \in LeafKinds}
    \cup {TreeL(a, b, c) : a \in LeafKinds, b \in LeafKinds, c \in LeafKinds}
    \cup {TreeR(a, b, c) : a \in LeafKinds, b \in LeafKinds, c \in LeafKinds}

\* examples/body.rs: chain.map(|rate, json| ...), for the chains that
\* extract (u32, JsonFut).
Promoted ==
  {Append(t, Node("map", Root(t), 0)) :
     t \in {u \in Chains : Extract(u, Root(u)) = <<"u32", "JsonFut">>}}

Routes == {t \in Chains \cup Promoted : WellTyped(t)}

Paths ==
  {<<Word("employees"), Num(n)>> : n \in Rates}
    \cup {<<Num(n), Word("employees")>> : n \in Rates}
    \cup {<<Word("employees")>>, <<Word("staff"), Num(0)>>}

\* --------------------------------------------------------------- state
VARIABLES
  route,     \* the filter of the route
  ctx,       \* the Route Context
  pc,        \* "start", then "applied" once the route's filter was applied
  pre,       \* the Route Context as it was when the filter was applied
  outcome,   \* what the filter's application gave: ok, tuple, ctx
  sent,      \* the chunks that arrived on the body stream, in order
  term,      \* "open", or how the stream finished: "end", "err"
  avail,     \* events of the stream not yet polled
  extend,    \* Concat2's state: First, Extending, Done
  acc,       \* Concat2's buffer
  cpolls,    \* the results of the polls of ConcatFut, in order
  jpolls,    \* the results of the polls of JsonFut, in order
  promoted,  \* the employees the promote closure was called with
  reply,     \* the reply future's value, once it is ready
  dropped    \* whether the extracted future was dropped

vars ==
  <<route, ctx, pc, pre, outcome, sent, term, avail, extend, acc, cpolls,
    jpolls, promoted, reply, dropped>>

NoOutcome == Out(FALSE, <<>>, Ctx(<<>>, "present", <<>>, <<>>, <<>>))
NoReply == [kind |-> "none", body |-> <<>>]

\* The requests followed to the end, each a route and the path requested:
\* the body filters alone, concat() after a path filter, and the promote
\* route of examples/body.rs (POST /employees/:rate).
PromoteRoute == Append(TreeL("exact", "param", "json"), Node("map", 5, 0))
Requests ==
  {r \in
     {<<Tree1("concat"), <<>>>>, <<Tree1("json"), <<>>>>,
      <<Tree2("exact", "concat"), <<Word("employees")>>>>,
      <<Tree2("exact", "concat"), <<Word("staff")>>>>,
      <<PromoteRoute, <<Word("employees")>>>>}
       \cup {<<PromoteRoute, <<Word("employees"), Num(n)>>>> : n \in Rates} :
     r[1] \in Routes}

\* Every chain of up to three filters, on every path.
ChainRequests == {<<t, p>> : t \in Routes, p \in Paths}

InitWith(requests) ==
  /\ \E r \in requests :
       /\ route = r[1]
       /\ ctx = Ctx(r[2], "present", <<>>, <<>>, <<>>)
  /\ pc = "start"
  /\ pre = NoOutcome.ctx
  /\ outcome = NoOutcome
  /\ sent = <<>>
  /\ term = "open"
  /\ avail = <<>>
  /\ extend = "First"
  /\ acc = <<>>
  /\ cpolls = <<>>
  /\ jpolls = <<>>
  /\ promoted = <<>>
  /\ reply = NoReply
  /\ dropped = FALSE

streamVars == <<sent, term, avail>>
futVars == <<extend, acc, cpolls, jpolls, promoted, reply, dropped>>

\* ------------------------------------------------------------ transport
\* The transport delivers to the Body while its receiving end exists.
Arrive(c) ==
  /\ ~dropped
  /\ term = "open"
  /\ Len(sent) < MaxChunks
  /\ Flatten(sent) \o c \in Prefixes
  /\ sent' = Append(sent, c)
  /\ avail' = Append(avail, Ev("chunk", c))
  /\ UNCHANGED <<route, ctx, pc, pre, outcome, term, futVars>>

StreamEnd ==
  /\ ~dropped
  /\ term = "open"
  /\ Flatten(sent) \in Bodies
  /\ term' = "end"
  /\ avail' = Append(avail, Ev("end", <<>>))
  /\ UNCHANGED <<route, ctx, pc, pre, outcome, sent, futVars>>

StreamError ==
  /\ ~dropped
  /\ term = "open"
  /\ term' = "err"
  /\ avail' = Append(avail, Ev("err", <<>>))
  /\ UNCHANGED <<route, ctx, pc, pre, outcome, sent, futVars>>

\* ------------------------------------------------------------- request
\* A take_body() call made by other code than the body filters.
TakeBodyDirect ==
  /\ Cardinality({i \in 1..Len(ctx.takes) : ctx.takes[i].by = "direct"}) < MaxTakes
  /\ ctx' = take_body(ctx, "direct").ctx
  /\ UNCHANGED <<route, pc, pre, outcome, streamVars, futVars>>

\* The route's filter is applied to the request.
ApplyRoute ==
  /\ pc = "start"
  /\ LET o == Apply(route, Root(route), ctx) IN
       /\ outcome' = o
       /\ ctx' = o.ctx
  /\ pre' = ctx
  /\ pc' = "applied"
  /\ UNCHANGED <<route, streamVars, futVars>>

\* ---------------------------------------------------------------- polls
Holds(tag) ==
  /\ pc = "applied"
  /\ outcome.ok
  /\ \E i \in 1..Len(outcome.tuple) : outcome.tuple[i].tag = tag

Panicked ==
  \/ \E i \in 1..Len(cpolls) : cpolls[i].res = "Panic"
  \/ \E i \in 1..Len(jpolls) : jpolls[i].res = "Panic"

\* What the stream may yield to this poll when nothing is queued.
Post == IF term # "open" THEN PostOutcomes ELSE {"notready"}

CEntry(r) == [res |-> r.res, val |-> r.val, err |-> r.err]
JEntry(r) == [res |-> r.res, val |-> r.val, err |-> r.err, decoded |-> r.decoded]

\* The holder of the ConcatFut polls it.
PollConcat ==
  /\ Holds("ConcatFut")
  /\ ~Panicked
  /\ ~dropped
  /\ Len(cpolls) < MaxPolls
  /\ \E post \in Post : \E r \in {ConcatFut_poll(avail, extend, acc, post)} :
         /\ avail' = r.avail
         /\ extend' = r.extend
         /\ acc' = r.acc
         /\ cpolls' = Append(cpolls, CEntry(r))
  /\ UNCHANGED <<route, ctx, pc, pre, outcome, sent, term, jpolls, promoted, reply, dropped>>

\* The effect of one JsonFut poll with outcome r on the futures' state.
JsonPolled(r) ==
  /\ avail' = r.avail
  /\ extend' = r.extend
  /\ acc' = r.acc
  /\ cpolls' = Append(cpolls, r.inner)
  /\ jpolls' = Append(jpolls, JEntry(r))

\* The holder of the JsonFut polls it.
PollJson ==
  /\ Holds("JsonFut")
  /\ ~Panicked
  /\ ~dropped
  /\ Len(jpolls) < MaxPolls
  /\ \E post \in Post : \E r \in {JsonFut_poll(avail, extend, acc, post)} :
       JsonPolled(r)
  /\ UNCHANGED <<route, ctx, pc, pre, outcome, sent, term, promoted, reply, dropped>>

\* warp::reply::json(employee) and warp::reply::client_error()
ReplyJson(e) == [kind |-> "json", body |-> Encode(e)]
ClientError == [kind |-> "client_error", body |-> <<>>]

\* A mutant of promote_poll: the closure is called on a failure too, with
\* an employee that was never decoded.
promote_pollCallOnErr(rate, r) ==
  CASE r.res = "Ready" ->
         [reply |-> ReplyJson([r.val EXCEPT !.rate = rate]), called |-> <<r.val>>]
    [] r.res = "Err" ->
         [reply |-> ReplyJson([r.val EXCEPT !.rate = rate]), called |-> <<r.val>>]
    [] OTHER -> [reply |-> NoReply, called |-> <<>>]

\* A mutant of promote_poll: the employee is replied as it was decoded.
promote_pollKeepRate(rate, r) ==
  CASE r.res = "Ready" -> [reply |-> ReplyJson(r.val), called |-> <<r.val>>]
    [] r.res = "Err" -> [reply |-> ClientError, called |-> <<>>]
    [] OTHER -> [reply |-> NoReply, called |-> <<>>]

\* The future the promote closure returns, polled with the JsonFut's
\* outcome r: Future::map(json, |mut employee| { employee.rate = rate;
\* reply::json(employee) }).or_else(|_| reply::client_error())
promote_poll(rate, r) ==
  CASE r.res = "Ready" ->
         [reply |-> ReplyJson([r.val EXCEPT !.rate = rate]), called |-> <<r.val>>]
    [] r.res = "Err" -> [reply |-> ClientError, called |-> <<>>]
    [] OTHER -> [reply |-> NoReply, called |-> <<>>]

\* The server polls the reply future of the promote route until it is ready.
PollReply ==
  /\ Holds("Reply")
  /\ ~Panicked
  /\ ~dropped
  /\ reply = NoReply
  /\ Len(jpolls) < MaxPolls
  /\ \E post \in Post : \E r \in {JsonFut_poll(avail, extend, acc, post)} :
       \E p \in {promote_poll(outcome.tuple[1].n, r)} :
         /\ JsonPolled(r)
         /\ reply' = p.reply
         /\ promoted' = promoted \o p.called
  /\ UNCHANGED <<route, ctx, pc, pre, outcome, sent, term, dropped>>

\* A mutant of ConcatFut_drop: the buffer accumulated so far and the queued
\* chunks outlive the future.
ConcatFut_dropLeak(c, av, ac) ==
  [ctx |-> c, avail |-> av, extend |-> "Dropped", acc |-> ac]

\* A mutant of ConcatFut_drop: the body stream goes back to the context.
ConcatFut_dropGiveBack(c, av, ac) ==
  [ctx |-> [c EXCEPT !.body = "present"], avail |-> av, extend |-> "First", acc |-> <<>>]

\* Dropping a ConcatFut { fut: Concat2<Body> }, or the JsonFut { concat } or
\* reply future that owns it: the Concat2 goes with its buffer and with the
\* Body and what was queued in it; the Route Context is not touched.
ConcatFut_drop(c, av, ac) ==
  [ctx |-> c, avail |-> <<>>, extend |-> "Dropped", acc |-> <<>>]

\* The holder of the extracted future drops it before it has completed.
DropFuture ==
  /\ Holds("ConcatFut") \/ Holds("JsonFut") \/ Holds("Reply")
  /\ extend # "Done"
  /\ ~dropped
  /\ LET d == ConcatFut_drop(ctx, avail, acc) IN
       /\ ctx' = d.ctx
       /\ avail' = d.avail
       /\ extend' = d.extend
       /\ acc' = d.acc
  /\ dropped' = TRUE
  /\ UNCHANGED <<route, pc, pre, outcome, sent, term, cpolls, jpolls, promoted, reply>>

Next ==
  \/ \E c \in Pieces : Arrive(c)
  \/ StreamEnd
  \/ StreamError
  \/ TakeBodyDirect
  \/ ApplyRoute
  \/ PollConcat
  \/ PollJson
  \/ PollReply
  \/ DropFuture

Init == InitWith(Requests)

\* One request from its arrival to the reply.
Spec == Init /\ [][Next]_vars

\* The application of every chain of up to three filters to a request.
InitChain == InitWith(ChainRequests)
NextChain ==
  \/ TakeBodyDirect
  \/ ApplyRoute
SpecChain == InitChain /\ [][NextChain]_vars

\* The requests followed under a driver that keeps polling: each body
\* filter alone and the promote route.
LiveRequests ==
  {<<Tree1("concat"), <<>>>>, <<Tree1("json"), <<>>>>,
   <<PromoteRoute, <<Word("employees"), Num(MaxRate)>>>>}
InitLive == InitWith(LiveRequests)

\* The task that holds a future polls it again as long as it may: a poll
\* that can be made is not put off forever.
Fairness == WF_vars(PollConcat) /\ WF_vars(PollJson) /\ WF_vars(PollReply)
SpecLive == InitLive /\ [][Next]_vars /\ Fairness

\* -------------------------------------------------------------- claims
Takes == ctx.takes
ConcatTakeFailed ==
  \E i \in 1..Len(outcome.ctx.takes) :
    outcome.ctx.takes[i] = [by |-> "concat", got |-> FALSE]

\* C1: over any sequence of take_body() calls on one Route Context, however
\* they interleave with polls and chunk arrivals, the first call gets the
\* body stream and every later call gets nothing.
C1_TakeBodyOnce ==
  \A i \in 1..Len(Takes) : Takes[i].got <=> (i = 1)

\* A second take_body() call, made after the ConcatFut was polled and a chunk
\* arrived, got nothing.
C1_Witness ==
  /\ Len(Takes) >= 2
  /\ Takes[1].got /\ ~Takes[2].got
  /\ cpolls # <<>>
  /\ sent # <<>>

\* C2: concat() or json() applied to a Route Context whose body was already
\* taken fails: the chain is rejected, no future is extracted and nothing is
\* ever polled over a substitute body.
C2_UnavailableFails ==
  (pc = "applied" /\ ConcatTakeFailed) =>
    /\ ~outcome.ok
    /\ outcome.tuple = <<>>
    /\ cpolls = <<>> /\ jpolls = <<>>
    /\ extend = "First" /\ acc = <<>>

\* json() was applied after the body had been taken, while the stream had
\* already ended.
C2_Witness ==
  /\ pc = "applied"
  /\ route = Tree1("json")
  /\ ConcatTakeFailed
  /\ term = "end"

\* C3: whenever a poll of ConcatFut is Ready, the stream has ended and the
\* value is the concatenation, in arrival order, of all chunks that arrived.
C3_ConcatIsConcatenation ==
  \A i \in 1..Len(cpolls) :
    cpolls[i].res = "Ready" => (term = "end" /\ cpolls[i].val = Flatten(sent))

\* ConcatFut was Pending once and then Ready over two non-empty chunks.
C3_Witness ==
  /\ Holds("ConcatFut")
  /\ Len(cpolls) = 2
  /\ cpolls[1].res = "NotReady" /\ cpolls[2].res = "Ready"
  /\ Len(sent) = 2 /\ sent[1] # <<>> /\ sent[2] # <<>>

IsEncodingOf(b, e) == b = Encode(e) \/ b = EncodeSwapped(e)

\* C4: json::<Employee>() over the complete body b: a poll is Ready only
\* with the employee that b encodes; once the whole of b was read, the poll
\* is Ready if b encodes an employee and fails if it does not.
C4_JsonDecodesBody ==
  \A i \in 1..Len(jpolls) :
    LET b == Flatten(sent) IN
      /\ jpolls[i].res = "Ready" =>
           /\ term = "end"
           /\ jpolls[i].val \in Employee
           /\ IsEncodingOf(b, jpolls[i].val)
           /\ jpolls[i].val = Decode(b).val
      /\ jpolls[i].decoded =>
           IF \E e \in Employee : IsEncodingOf(b, e)
             THEN jpolls[i].res = "Ready"
             ELSE jpolls[i].res = "Err" /\ jpolls[i].val = NoEmployee

\* JsonFut became Ready over a body that arrived in two chunks.
C4_Witness ==
  /\ Holds("JsonFut")
  /\ Len(sent) = 2 /\ sent[1] # <<>> /\ sent[2] # <<>>
  /\ \E i \in 1..Len(jpolls) : jpolls[i].res = "Ready" /\ jpolls[i].val.rate = MaxRate

RECURSIVE Subtree(_, _)
\* The nodes of the filter at node i.
Subtree(tree, i) ==
  IF tree[i].op = "and"
    THEN {i} \cup Subtree(tree, tree[i].l) \cup Subtree(tree, tree[i].r)
  ELSE IF tree[i].op = "map" THEN {i} \cup Subtree(tree, tree[i].l)
  ELSE {i}

Event(n, ev) == \E k \in 1..Len(ctx.applied) : ctx.applied[k] = [node |-> n, ev |-> ev]
DirectTakes == {i \in 1..Len(Takes) : Takes[i].by = "direct"}

\* C5: in A.and(B), when A's application fails, B (and no filter inside B)
\* is applied, and a body that was present before is still present when B
\* holds the chain's body filter.
C5_FailFast ==
  \A i \in 1..Len(route) :
    (route[i].op = "and" /\ Event(route[i].l, "fail")) =>
      /\ \A n \in Subtree(route, route[i].r) : ~Event(n, "call")
      /\ Event(i, "fail")
      /\ (HasBody(route, route[i].r) /\ DirectTakes = {}) =>
           (ctx.body = "present" /\ Takes = <<>>)

\* exact("employees").and(concat()) was applied to another path: the chain
\* failed at the path filter and the body was left in the context.
C5_Witness ==
  /\ pc = "applied"
  /\ route = Tree2("exact", "concat")
  /\ Event(1, "fail")
  /\ ~outcome.ok
  /\ ctx.body = "present"

Regroup(tree) ==
  IF tree = TreeL(tree[1].op, tree[2].op, tree[3].op)
    THEN TreeR(tree[1].op, tree[2].op, tree[3].op)
    ELSE TreeL(tree[1].op, tree[2].op, tree[3].op)

\* The leaf events of a context's record, in order.
LeafEvents(c, tree) ==
  SelectSeq(c.applied, LAMBDA e : tree[e.node].op \in LeafKinds)

\* The tuple of three filters applied one after the other, with no chaining.
InOrder(tree, c) ==
  LET a == Apply(tree, 1, c)
      b == Apply(tree, 2, a.ctx)
      d == Apply(tree, 3, b.ctx)
  IN  a.tuple \o b.tuple \o d.tuple

\* C6: (A.and(B)).and(C) and A.and(B.and(C)), applied to the same fresh
\* context, both succeed or both fail, extract the same tuple, which is A's
\* then B's then C's, apply the same filters in the same order, leave the
\* same context and take the body at most once.
C6_ChainAssociative ==
  (pc = "applied" /\ Len(route) = 5) =>
    LET o == Apply(Regroup(route), 5, pre) IN
      /\ o.ok = outcome.ok
      /\ o.tuple = outcome.tuple
      /\ outcome.ok => outcome.tuple = InOrder(route, pre)
      /\ o.ctx.segs = outcome.ctx.segs
      /\ o.ctx.body = outcome.ctx.body
      /\ o.ctx.takes = outcome.ctx.takes
      /\ LeafEvents(o.ctx, route) = LeafEvents(outcome.ctx, route)
      /\ Cardinality({k \in 1..Len(outcome.ctx.takes) : outcome.ctx.takes[k].got}) <= 1

\* exact.and(param).and(json), grouped to the right, extracted (u32, JsonFut).
C6_Witness ==
  /\ pc = "applied"
  /\ route = TreeR("exact", "param", "json")
  /\ outcome.ok
  /\ Len(outcome.tuple) = 2
  /\ outcome.tuple[1] = Val("u32", MaxRate)

BodyLeaves(tree) == {i \in 1..Len(tree) : tree[i].op \in {"concat", "json"}}

JsonFailed == \E i \in 1..Len(jpolls) : jpolls[i].res = "Err"
DecodeFailedAt(i) == jpolls[i].decoded /\ jpolls[i].res = "Err"

\* C8 as stated: when the stream or the decode fails, the application handler
\* (the closure given to the route's map) has not been called.
C8_HandlerNeverCalledOnFailure ==
  JsonFailed => ctx.handler = <<>>

\* C8, amended: the route's closure is called exactly when the chain's
\* application succeeded, once, with the whole tuple (rate, JsonFut) and
\* before the body is read; the closure that takes the Employee is called
\* only with the employee the complete body encodes, at most once, and never
\* when the chain was rejected or the future failed.
C8_AllOrNothing ==
  /\ (pc = "applied" /\ route[Root(route)].op = "map" /\ outcome.ok) <=> ctx.handler # <<>>
  /\ ctx.handler # <<>> =>
       /\ Len(ctx.handler) = 1
       /\ ctx.handler[1] = <<Val("u32", pre.segs[2].num), Val("JsonFut", 0)>>
  /\ (pc = "applied" /\ ~outcome.ok) =>
       (promoted = <<>> /\ reply = NoReply /\ jpolls = <<>>)
  /\ Len(promoted) <= 1
  /\ \A k \in 1..Len(promoted) :
       /\ promoted[k] \in Employee
       /\ term = "end"
       /\ IsEncodingOf(Flatten(sent), promoted[k])
       /\ reply.kind = "json"
  /\ JsonFailed => (promoted = <<>> /\ reply.kind # "json")

\* The promote route's closure was called, and then the decode failed: the
\* reply is the client error.
C8_Witness ==
  /\ route = PromoteRoute
  /\ ctx.handler # <<>>
  /\ term = "end"
  /\ JsonFailed
  /\ reply = ClientError

\* C9 as stated: a stream failure or a decode failure short-circuits the chain
\* into a rejection, as an unavailable body does.
C9_EveryFailureRejectsChain ==
  (JsonFailed \/ \E i \in 1..Len(cpolls) : cpolls[i].res = "Err") => ~outcome.ok

\* C9, amended: a stream failure and a decode failure both come out of the
\* future's poll as the one value Error(()), whatever their cause, after the
\* chain's application has succeeded; an unavailable body comes out of the
\* application itself, as a rejected chain with no future and no error value.
C9_OpaqueError ==
  /\ \A i \in 1..Len(cpolls) :
       cpolls[i].res = "Err" => (cpolls[i].err = ErrorUnit /\ outcome.ok)
  /\ \A i \in 1..Len(jpolls) :
       jpolls[i].res = "Err" =>
         (jpolls[i].err = ErrorUnit /\ jpolls[i].val = NoEmployee /\ outcome.ok)
  /\ (pc = "applied" /\ ConcatTakeFailed) =>
       (~outcome.ok /\ cpolls = <<>> /\ jpolls = <<>>)

\* JsonFut failed on an error of the body stream after a chunk had arrived.
C9_Witness ==
  /\ Holds("JsonFut")
  /\ term = "err"
  /\ sent # <<>>
  /\ Len(jpolls) = 1
  /\ jpolls[1].res = "Err" /\ ~jpolls[1].decoded

\* C10 as stated: after the poll in which the decode failed, JsonFut polls
\* its ConcatFut no further time and every later poll is the failure again.
C10_FailedNeverRepollsDelegate ==
  \A i \in 1..Len(jpolls) :
    DecodeFailedAt(i) =>
      /\ Len(cpolls) = i
      /\ \A j \in (i + 1)..Len(jpolls) : jpolls[j].res = "Err"

\* C10, amended: every poll of JsonFut polls its ConcatFut first, also after
\* a decode failure; the decode is attempted only in a poll in which the
\* ConcatFut is Ready, which happens at most once, so it is attempted at most
\* once and a later poll never decodes again and is never Ready.
C10_DecodeAtMostOnce ==
  /\ (Holds("JsonFut") \/ Holds("Reply")) => Len(cpolls) = Len(jpolls)
  /\ \A i \in 1..Len(jpolls) : jpolls[i].decoded <=> cpolls[i].res = "Ready"
  /\ Cardinality({i \in 1..Len(jpolls) : jpolls[i].decoded}) <= 1
  /\ \A i \in 1..Len(jpolls) :
       DecodeFailedAt(i) =>
         \A j \in (i + 1)..Len(jpolls) :
           ~jpolls[j].decoded /\ jpolls[j].res \in {"Panic", "NotReady", "Err"}

\* JsonFut was polled again after its decode had failed.
C10_Witness ==
  /\ Holds("JsonFut")
  /\ \E i \in 1..Len(jpolls) : DecodeFailedAt(i) /\ i < Len(jpolls)

\* C11 as stated: once a poll of ConcatFut was Ready with a buffer, every
\* later poll of it is Ready with that same buffer.
C11_ReadyObservedAgain ==
  \A i \in 1..Len(cpolls) : \A j \in (i + 1)..Len(cpolls) :
    cpolls[i].res = "Ready" => cpolls[j] = cpolls[i]

\* C11, amended: ConcatFut is Ready at most once, with the concatenation of
\* the chunks; the buffer leaves it with that result, and a later poll
\* panics, is Pending or fails, so it never gives another buffer.
C11_ReadyAtMostOnce ==
  /\ Cardinality({i \in 1..Len(cpolls) : cpolls[i].res = "Ready"}) <= 1
  /\ \A i \in 1..Len(cpolls) :
       cpolls[i].res = "Ready" =>
         /\ cpolls[i].val = Flatten(sent)
         /\ extend = "Done" /\ acc = <<>>
         /\ \A j \in (i + 1)..Len(cpolls) :
              cpolls[j].res \in {"Panic", "NotReady", "Err"} /\ cpolls[j].val = <<>>

\* ConcatFut was polled again after it had been Ready with a non-empty buffer.
C11_Witness ==
  /\ Holds("ConcatFut")
  /\ \E i \in 1..Len(cpolls) :
       cpolls[i].res = "Ready" /\ cpolls[i].val # <<>> /\ i < Len(cpolls)

JsonHeld == Holds("JsonFut") \/ Holds("Reply")

\* C12: every poll of JsonFut is one poll of its ConcatFut; while that is
\* Pending the JsonFut is Pending, when that fails the JsonFut fails with
\* the same error, in both cases without decoding; the JsonFut is Ready only
\* in a poll in which the ConcatFut is Ready, with the decoding of the
\* ConcatFut's buffer.
C12_JsonDelegates ==
  JsonHeld =>
    /\ Len(cpolls) = Len(jpolls)
    /\ \A i \in 1..Len(jpolls) :
         /\ cpolls[i].res = "NotReady" => (jpolls[i].res = "NotReady" /\ ~jpolls[i].decoded)
         /\ cpolls[i].res = "Err" =>
              (jpolls[i].res = "Err" /\ jpolls[i].err = cpolls[i].err /\ ~jpolls[i].decoded)
         /\ cpolls[i].res = "Panic" => (jpolls[i].res = "Panic" /\ ~jpolls[i].decoded)
         /\ jpolls[i].res = "Ready" =>
              (cpolls[i].res = "Ready" /\ jpolls[i].val = Decode(cpolls[i].val).val)
         /\ jpolls[i].res # "Ready" => jpolls[i].val = NoEmployee

\* JsonFut was Pending while the whole body had arrived but not its end, and
\* then Ready.
C12_Witness ==
  /\ Holds("JsonFut")
  /\ Len(jpolls) = 2
  /\ Decode(Flatten(sent)).ok
  /\ jpolls[1].res = "NotReady" /\ jpolls[2].res = "Ready"
  /\ Len(sent) = 1

\* C13: when the body stream fails, after any number of chunks, no poll of
\* ConcatFut or JsonFut is Ready and nothing is decoded; the poll that meets
\* the error fails with Error(()).
C13_StreamErrorFails ==
  term = "err" =>
    /\ \A i \in 1..Len(cpolls) : cpolls[i].res # "Ready"
    /\ \A i \in 1..Len(jpolls) : jpolls[i].res # "Ready" /\ ~jpolls[i].decoded
    /\ (avail = <<>> /\ ~dropped /\ cpolls # <<>>) =>
         \E i \in 1..Len(cpolls) :
           /\ cpolls[i] = [res |-> "Err", val |-> <<>>, err |-> ErrorUnit]
           /\ \A j \in 1..(i - 1) : cpolls[j].res = "NotReady"
           /\ JsonHeld =>
                jpolls[i] = [res |-> "Err", val |-> NoEmployee, err |-> ErrorUnit,
                             decoded |-> FALSE]

\* ConcatFut failed on an error of the stream that came after two chunks.
C13_Witness ==
  /\ Holds("ConcatFut")
  /\ term = "err"
  /\ Len(sent) = 2 /\ sent[1] # <<>> /\ sent[2] # <<>>
  /\ \E i \in 1..Len(cpolls) : cpolls[i].res = "Err"

\* The place of an event in the record of applications.
Pos(n, ev) == CHOOSE k \in 1..Len(ctx.applied) : ctx.applied[k] = [node |-> n, ev |-> ev]
Futures == {"ConcatFut", "JsonFut"}

ThenDecode(c) ==
  IF c.res # "Ready" THEN [res |-> c.res, val |-> NoEmployee, err |-> c.err]
  ELSE IF Decode(c.val).ok THEN [res |-> "Ready", val |-> Decode(c.val).val, err |-> ""]
  ELSE [res |-> "Err", val |-> NoEmployee, err |-> ErrorUnit]

\* C15: json() is accumulate-then-decode. Applied to any Route Context it
\* succeeds exactly when concat() does and does to the context what concat()
\* does; every poll of the JsonFut is Pending exactly when the accumulation
\* is, and otherwise is the decoding of what the ConcatFut gave; on any
\* stream state a poll of a live JsonFut leaves the stream and the buffer as
\* the poll of a ConcatFut would, and the map step fails nowhere on its own.
C15_JsonIsConcatThenDecode ==
  /\ json_apply(ctx).ok = concat_apply(ctx).ok
  /\ json_apply(ctx).ctx = concat_apply(ctx).ctx
  /\ (pc = "applied" /\ route = Tree1("json")) =>
       /\ outcome.ok = concat_apply(pre).ok
       /\ outcome.ctx.body = concat_apply(pre).ctx.body
       /\ outcome.ctx.takes = concat_apply(pre).ctx.takes
       /\ outcome.ok => outcome.tuple = <<Val("JsonFut", 0)>>
  /\ JsonHeld =>
       \A i \in 1..Len(jpolls) :
         /\ (jpolls[i].res = "NotReady") <=> (cpolls[i].res = "NotReady")
         /\ [res |-> jpolls[i].res, val |-> jpolls[i].val, err |-> jpolls[i].err]
              = ThenDecode(cpolls[i])
         /\ jpolls[i].res = "Err" =>
              (cpolls[i].res = "Err" \/ (cpolls[i].res = "Ready" /\ ~Decode(cpolls[i].val).ok))
  /\ ~dropped =>
     \A post \in Post :
       LET j == JsonFut_poll(avail, extend, acc, post)
           c == ConcatFut_poll(avail, extend, acc, post)
       IN  /\ j.avail = c.avail /\ j.extend = c.extend /\ j.acc = c.acc
           /\ [res |-> j.res, val |-> j.val, err |-> j.err] = ThenDecode(c)

\* json() alone: the JsonFut was Pending after the first of two chunks and
\* Ready with the decoded employee once the stream had ended.
C15_Witness ==
  /\ route = Tree1("json")
  /\ Holds("JsonFut")
  /\ Len(sent) = 2 /\ sent[1] # <<>> /\ sent[2] # <<>>
  /\ Len(jpolls) = 2
  /\ jpolls[1].res = "NotReady" /\ jpolls[2].res = "Ready"
  /\ cpolls[2].res = "Ready" /\ cpolls[2].val = Flatten(sent)
  /\ Encode(jpolls[2].val) = Flatten(sent)

\* C16: once a ConcatFut or JsonFut has been dropped before it completed,
\* the buffer it had accumulated and the body stream with what was queued in
\* it are gone, the future is never polled again, and the stream is not back
\* in the Route Context: its body stays taken and a further take_body() gets
\* nothing.
C16_DropReleases ==
  dropped =>
    /\ acc = <<>>
    /\ avail = <<>>
    /\ extend = "Dropped"
    /\ ctx.body = "taken"
    /\ ~take_body(ctx, "direct").got
    /\ \A i \in 1..Len(cpolls) : cpolls[i].res = "NotReady"
    /\ \A i \in 1..Len(jpolls) : jpolls[i].res = "NotReady"
    /\ reply = NoReply

\* A JsonFut that was Pending after a chunk of the body was dropped while the
\* stream was still open.
C16_Witness ==
  /\ dropped
  /\ Holds("JsonFut")
  /\ term = "open"
  /\ sent # <<>> /\ sent[1] # <<>>
  /\ jpolls # <<>>

\* The rate captured from the path of a request the promote route matched.
PathRate == pre.segs[2].num

OnlyChunks(av) == \A k \in 1..Len(av) : av[k].kind = "chunk"
Completed == \E i \in 1..Len(cpolls) : cpolls[i].res \in {"Ready", "Err"}
JsonCompleted == \E i \in 1..Len(jpolls) : jpolls[i].res \in {"Ready", "Err"}

\* A poll of a ConcatFut that has not completed is Pending exactly when the
\* stream holds chunks only; the stream is then open, and the poll has taken
\* every chunk that was available into the buffer.
PendingOnlyWhenStarved ==
  (cpolls' # cpolls /\ extend # "Done") =>
    /\ (cpolls'[Len(cpolls')].res = "NotReady") <=> OnlyChunks(avail)
    /\ cpolls'[Len(cpolls')].res = "NotReady" =>
         /\ term = "open"
         /\ avail' = <<>>
         /\ acc' = acc \o Flatten([k \in 1..Len(avail) |-> avail[k].data])

\* C18: a ConcatFut is Pending only when the stream has no chunk left for it
\* and has neither ended nor failed; and once the stream has ended or failed,
\* a ConcatFut, JsonFut or reply future whose holder keeps polling (it has
\* polls left and does not drop it) completes: Ready or Failed.
C18_Progress ==
  /\ [][PendingOnlyWhenStarved]_vars
  /\ (Holds("ConcatFut") /\ term # "open" /\ Len(cpolls) < MaxPolls)
       ~> (Completed \/ dropped)
  /\ (Holds("JsonFut") /\ term # "open" /\ Len(jpolls) < MaxPolls)
       ~> (JsonCompleted \/ dropped)
  /\ (Holds("Reply") /\ term # "open" /\ Len(jpolls) < MaxPolls)
       ~> (reply # NoReply \/ dropped)

\* A JsonFut was Pending once, on an open stream that had given it a chunk,
\* and completed after the stream's end.
C18_Witness ==
  /\ Holds("JsonFut")
  /\ term = "end"
  /\ Len(jpolls) = 2
  /\ jpolls[1].res = "NotReady"
  /\ jpolls[2].res \in {"Ready", "Err"}
  /\ Len(sent) = 2 /\ sent[1] # <<>>

\* A body filter of the route was applied with success.
BodyFilterApplied ==
  \E n \in 1..Len(route) : route[n].op \in {"concat", "json"} /\ Event(n, "ok")

\* C19: concat() and json() take the body out of the Route Context when they
\* are applied: right after a successful application, before any poll, the
\* body is taken, and it stays taken whether the future is never polled,
\* is Pending, has completed or failed, or was dropped: in every state from
\* the application on, the only take_body() call that got the body is the
\* filter's, and a further call would get nothing.
C19_EagerTake ==
  /\ (pc = "applied" /\ outcome.ok /\ BodyFilterApplied) =>
       /\ outcome.ctx.body = "taken"
       /\ \E k \in 1..Len(outcome.ctx.takes) :
            outcome.ctx.takes[k] = [by |-> "concat", got |-> TRUE]
  /\ BodyFilterApplied =>
       /\ ctx.body = "taken"
       /\ ~take_body(ctx, "direct").got
       /\ \A k \in 1..Len(Takes) :
            Takes[k].got => (k = 1 /\ Takes[k].by = "concat")

\* The JsonFut of the promote route was dropped without ever being polled,
\* after the whole body had arrived, and a later take_body() got nothing.
C19_Witness ==
  /\ Holds("Reply")
  /\ dropped
  /\ cpolls = <<>> /\ jpolls = <<>>
  /\ term = "end"
  /\ Len(Takes) = 2 /\ Takes[1] = [by |-> "concat", got |-> TRUE]
  /\ Takes[2] = [by |-> "direct", got |-> FALSE]

\* The first poll of the ConcatFut that was not Pending, if there was one.
FirstDone(i) ==
  /\ i \in 1..Len(cpolls)
  /\ cpolls[i].res # "NotReady"
  /\ \A j \in 1..(i - 1) : cpolls[j].res = "NotReady"

\* C20: when the body stream has ended without a chunk, the poll of the
\* ConcatFut that meets the end is Ready with the empty buffer; the empty
\* buffer does not decode, so the same poll of a JsonFut fails with
\* Error(()), having decoded; and once the end was polled there is such a
\* poll.
C20_EmptyBody ==
  (term = "end" /\ sent = <<>>) =>
    /\ ~Decode(<<>>).ok
    /\ \A i \in 1..Len(cpolls) :
         FirstDone(i) =>
           /\ cpolls[i] = [res |-> "Ready", val |-> <<>>, err |-> ""]
           /\ JsonHeld =>
                jpolls[i] = [res |-> "Err", val |-> NoEmployee, err |-> ErrorUnit,
                             decoded |-> TRUE]
    /\ (avail = <<>> /\ ~dropped) => \E i \in 1..Len(cpolls) : FirstDone(i)

\* A JsonFut, Pending while nothing had arrived, failed when the stream
\* ended with no chunk.
C20_Witness ==
  /\ Holds("JsonFut")
  /\ term = "end" /\ sent = <<>>
  /\ Len(jpolls) = 2
  /\ jpolls[1].res = "NotReady"
  /\ jpolls[2].res = "Err" /\ jpolls[2].decoded
  /\ cpolls[2] = [res |-> "Ready", val |-> <<>>, err |-> ""]

====
